---- MODULE Spec2Model ----
(***************************************************************************)
(* Hostel Attendance Tracker (src/streamlit_app.py).                       *)
(*                                                                         *)
(* The three Google Sheets worksheets (Students, Attendance, Locks) are    *)
(* the shared stores.  Every browser session runs the script in its own    *)
(* thread, so the script runs of different sessions interleave at every    *)
(* worksheet call; st.cache_data is one cache shared by all sessions.      *)
(* A date is the string strftime("%Y-%m-%d") produces; the model names a   *)
(* date by a number, compared only for equality, and MonthOf gives its     *)
(* calendar month.                                                         *)
(*                                                                         *)
(* The model has two browser sessions and one date (two keys, Morning and  *)
(* Night), and the radios of take_attendance are left at their default;    *)
(* the roster and the Attendance sheet are bounded by MaxStudents and      *)
(* MaxRows.                                                                *)
(***************************************************************************)
EXTENDS Integers, Sequences, FiniteSets, TLC

\* ------------------------------------------------------------- bounds
MaxStudents == 2    \* largest student_id the Students sheet gets to
MaxRows == 2        \* rows the Attendance sheet grows to

\* ------------------------------------------------------------- config
SESSIONS == <<"Morning", "Night">>

STATUS_OPTIONS == <<"P", "A", "L", "S", "SCH/CLG", "OI">>

USERS ==
    ("warden1" :> [password |-> "1234", role |-> "admin",    session |-> "-"]) @@
    ("warden2" :> [password |-> "1234", role |-> "admin",    session |-> "-"]) @@
    ("morning" :> [password |-> "1111", role |-> "operator", session |-> "Morning"]) @@
    ("night"   :> [password |-> "2222", role |-> "operator", session |-> "Night"])

RedFlagThreshold == 75

\* The browser sessions, and the dates the date_input is set to.
Procs == {1, 2}
Days == {1}
StudentIds == 1..MaxStudents
SessionSet == {SESSIONS[i] : i \in DOMAIN SESSIONS}

\* The mark of a radio nobody touched: st.radio starts at the first option.
RadioDefault == STATUS_OPTIONS[1]

\* The statuses analytics tells apart: "P" and any other (lines 312, 321).
StatusSeen == {"P", "A"}
Keys == Days \X SessionSet

VARIABLES
    students,     \* Students sheet: rows [student_id, active]
    attendance,   \* Attendance sheet: rows [date, session, student_id, status]
    locks,        \* Locks sheet: rows [date, session, locked]
    cache,        \* st.cache_data entries of is_locked, per (day, session)
    user,         \* st.session_state.user of each browser session
    pc,           \* where the script run of each browser session is
    day,          \* take_attendance: day
    session,      \* take_attendance: session
    locked_seen,  \* is_locked: what the scan of rows found, before it is cached
    data,         \* take_attendance: the student_id column of data
    idx,          \* set_lock: sheet row of the entry it found, 0 when none
    shown,        \* analytics: the branch that rendered, and what it read
    red_flags     \* analytics: the rows of the red flag table, in order

vars == <<students, attendance, locks, cache, user, pc, day, session,
          locked_seen, data, idx, shown, red_flags>>

locals == <<day, session, locked_seen, data, idx>>
report == <<shown, red_flags>>

\* The name column of Students and of Attendance is left out: nothing the
\* model covers reads it.

\* ------------------------------------------------------------- helpers
\* bool(r["locked"]) of a cell read back by get_all_records: the sheet
\* renders a boolean cell as the text TRUE or FALSE, and bool() of a string
\* is whether it is non-empty.
CellOf(locked) == IF locked THEN "TRUE" ELSE "FALSE"

PyBool(cell) == cell # ""

MatchingRows(rows, d, s) ==
    {i \in DOMAIN rows : rows[i].date = d /\ rows[i].session = s}

\* The first row the for loop of is_locked / set_lock matches, 0 when none.
FirstMatch(rows, d, s) ==
    IF MatchingRows(rows, d, s) = {} THEN 0
    ELSE CHOOSE i \in MatchingRows(rows, d, s) :
             \A j \in MatchingRows(rows, d, s) : i <= j

is_locked(rows, d, s) ==
    IF FirstMatch(rows, d, s) = 0 THEN FALSE
    ELSE PyBool(rows[FirstMatch(rows, d, s)].locked)

IsAdmin(p) == USERS[user[p]].role = "admin"
IsOperator(p) == USERS[user[p]].role = "operator"

\* load_students(True): the active rows, in sheet order.
ActiveRows(rows) == SelectSeq(rows, LAMBDA r : r.active)

\* pc = "menu": no script run of the session is under way, the page of the
\* last run (menu, warning, form, success or error) is on screen and the
\* next interaction starts a new run.

\* The values the session selectbox can have for the user (line 228).
SessionChoicesAny(u) == SessionSet

SessionChoices(u) ==
    IF USERS[u].role = "operator" THEN {USERS[u].session} ELSE SessionSet

\* Lines 239-246: data, every radio at its default.
RowsOf(p) ==
    [i \in DOMAIN data[p] |->
        [date |-> day[p], session |-> session[p],
         student_id |-> data[p][i], status |-> RadioDefault]]

ResetLocals(p) ==
    /\ day' = [day EXCEPT ![p] = 0]
    /\ session' = [session EXCEPT ![p] = "-"]
    /\ locked_seen' = [locked_seen EXCEPT ![p] = FALSE]
    /\ data' = [data EXCEPT ![p] = <<>>]
    /\ idx' = [idx EXCEPT ![p] = 0]

\* What a run of analytics leaves on screen: the branch taken, the filtered
\* frame df and the Students rows the report was built from.
Page(view, df, rows) == [view |-> view, df |-> df, students |-> rows]

\* ------------------------------------------------------------- initial state
\* The tables the data editor of manage_students can hold for the sheet
\* rows: rows deleted, active boxes ticked or cleared (lines 380-387).
Edited(rows) ==
    {[i \in 1..Cardinality(keep_flags[1]) |->
         [student_id |->
              rows[CHOOSE k \in keep_flags[1] :
                       Cardinality({j \in keep_flags[1] : j < k}) = i - 1].student_id,
          active |-> keep_flags[2][i]]] :
       keep_flags \in
          UNION {{<<K, f>> : f \in [1..Cardinality(K) -> BOOLEAN]} : K \in SUBSET DOMAIN rows}}

\* The Students sheets Add Student and Save Changes of manage_students lead
\* to: ids in the order get_next_student_id gave them out, some rows
\* deleted, any row active or not.
Rosters == Edited([i \in StudentIds |-> [student_id |-> i, active |-> TRUE]])

\* The Students sheet holds MaxStudents students, each active or not, and
\* there is no attendance yet; every browser session is past login()
\* (lines 127-137), as one of USERS, and no script run is under way.
Init ==
    /\ students \in {r \in Rosters : Len(r) = MaxStudents}
    /\ attendance = <<>>
    /\ locks = <<>>
    /\ cache = [k \in Keys |-> "miss"]
    /\ user \in [Procs -> DOMAIN USERS]
    /\ pc = [p \in Procs |-> "menu"]
    /\ day = [p \in Procs |-> 0]
    /\ session = [p \in Procs |-> "-"]
    /\ locked_seen = [p \in Procs |-> FALSE]
    /\ data = [p \in Procs |-> <<>>]
    /\ idx = [p \in Procs |-> 0]
    /\ shown = Page("none", <<>>, <<>>)
    /\ red_flags = <<>>

\* ------------------------------------------------------------- take_attendance
\* Lines 224-228: a run of take_attendance starts, with the date and the
\* session the widgets hold.
TakeAttendanceStart(p) ==
    /\ pc[p] = "menu"
    /\ \E d \in Days, s \in SessionChoices(user[p]) :
        /\ day' = [day EXCEPT ![p] = d]
        /\ session' = [session EXCEPT ![p] = s]
    /\ locked_seen' = [locked_seen EXCEPT ![p] = FALSE]
    /\ data' = [data EXCEPT ![p] = <<>>]
    /\ idx' = [idx EXCEPT ![p] = 0]
    /\ pc' = [pc EXCEPT ![p] = "is_locked"]
    /\ UNCHANGED <<students, attendance, locks, cache, user, report>>

\* Line 230, after is_locked returned v.
LockGate(p, v) ==
    IF v /\ ~IsAdmin(p)
    THEN /\ pc' = [pc EXCEPT ![p] = "menu"]
         /\ ResetLocals(p)
    ELSE /\ pc' = [pc EXCEPT ![p] = "load_students"]
         /\ UNCHANGED locals

\* is_locked, cache hit: the cached value is returned, the sheet is not read.
IsLockedCached(p) ==
    /\ pc[p] = "is_locked"
    /\ cache[<<day[p], session[p]>>] # "miss"
    /\ LockGate(p, cache[<<day[p], session[p]>>] = "locked")
    /\ UNCHANGED <<students, attendance, locks, cache, user, report>>

\* is_locked, cache miss: get_all_records and the scan of the rows.
IsLockedRead(p) ==
    /\ pc[p] = "is_locked"
    /\ cache[<<day[p], session[p]>>] = "miss"
    /\ locked_seen' = [locked_seen EXCEPT ![p] = is_locked(locks, day[p], session[p])]
    /\ pc' = [pc EXCEPT ![p] = "is_locked_return"]
    /\ UNCHANGED <<students, attendance, locks, cache, user, day, session, data, idx, report>>

\* is_locked returns: st.cache_data stores the value, line 230 tests it.
IsLockedReturn(p) ==
    /\ pc[p] = "is_locked_return"
    /\ cache' = [cache EXCEPT ![<<day[p], session[p]>>] =
                    IF locked_seen[p] THEN "locked" ELSE "open"]
    /\ LockGate(p, locked_seen[p])
    /\ UNCHANGED <<students, attendance, locks, user, report>>

\* Lines 234-248: the active students are read, one radio and one row of
\* data for each.
LoadStudents(p) ==
    /\ pc[p] = "load_students"
    /\ IF ActiveRows(students) = <<>>
       THEN /\ pc' = [pc EXCEPT ![p] = "menu"]
            /\ ResetLocals(p)
       ELSE /\ data' = [data EXCEPT ![p] =
                    [i \in DOMAIN ActiveRows(students) |->
                        ActiveRows(students)[i].student_id]]
            /\ pc' = [pc EXCEPT ![p] = "button"]
            /\ UNCHANGED <<day, session, locked_seen, idx>>
    /\ UNCHANGED <<students, attendance, locks, cache, user, report>>

\* Line 253, the button was not clicked in this run: the form stays on screen.
NoSubmit(p) ==
    /\ pc[p] = "button"
    /\ pc' = [pc EXCEPT ![p] = "menu"]
    /\ ResetLocals(p)
    /\ UNCHANGED <<students, attendance, locks, cache, user, report>>

\* Lines 253-254: append_rows(data).
SubmitAppendLockFirst(p) ==
    /\ pc[p] = "button"
    /\ pc' = [pc EXCEPT ![p] = "set_lock"]
    /\ UNCHANGED <<students, attendance, locks, cache, user, locals, report>>

SubmitAppendUpsert(p) ==
    /\ pc[p] = "button"
    /\ attendance' =
         SelectSeq(attendance,
                   LAMBDA r : ~(r.date = day[p] /\ r.session = session[p]))
         \o RowsOf(p)
    /\ Len(attendance') <= MaxRows
    /\ pc' = [pc EXCEPT ![p] = "set_lock"]
    /\ UNCHANGED <<students, locks, cache, user, locals, report>>

SubmitAppend(p) ==
    /\ pc[p] = "button"
    /\ Len(attendance) + Len(data[p]) <= MaxRows
    /\ attendance' = attendance \o RowsOf(p)
    /\ pc' = [pc EXCEPT ![p] = "set_lock"]
    /\ UNCHANGED <<students, locks, cache, user, locals, report>>

\* set_lock, lines 187-191: get_all_records and the scan for the key.  idx
\* is the sheet row, rows[i] being sheet row i + 1 under the header.
SetLockRead(p) ==
    /\ pc[p] = "set_lock"
    /\ idx' = [idx EXCEPT ![p] =
          IF FirstMatch(locks, day[p], session[p]) = 0 THEN 0
          ELSE FirstMatch(locks, day[p], session[p]) + 1]
    /\ pc' = [pc EXCEPT ![p] = "set_lock_write"]
    /\ UNCHANGED <<students, attendance, locks, cache, user, day, session,
                   locked_seen, data, report>>

\* The value take_attendance passes as locked (line 255).
SubmitLocked == TRUE

\* What ws.update(f"C{idx}", locked) leaves in the cell.
UpdatedCellToggle(old, locked) == IF old = "TRUE" THEN "FALSE" ELSE "TRUE"

UpdatedCell(old, locked) == CellOf(locked)

\* set_lock, lines 192-195: update the cell in place, or append the row.
SetLockWrite(p) ==
    /\ pc[p] = "set_lock_write"
    /\ IF idx[p] # 0
       THEN locks' = [locks EXCEPT ![idx[p] - 1] =
                [@ EXCEPT !.locked = UpdatedCell(@, SubmitLocked)]]
       ELSE locks' = Append(locks,
                [date |-> day[p], session |-> session[p],
                 locked |-> CellOf(SubmitLocked)])
    /\ pc' = [pc EXCEPT ![p] = "cache_clear"]
    /\ UNCHANGED <<students, attendance, cache, user, locals, report>>

\* Line 256 and the rest of the run: st.cache_data.clear(), the report.
CacheClear(p) ==
    /\ pc[p] = "cache_clear"
    /\ cache' = [k \in Keys |-> "miss"]
    /\ pc' = [pc EXCEPT ![p] = "menu"]
    /\ ResetLocals(p)
    /\ UNCHANGED <<students, attendance, locks, user, report>>

\* A worksheet call raises (gspread APIError): the run ends where it is,
\* with what it wrote so far and nothing more.
AtSheetCall(p) ==
    \/ pc[p] = "is_locked" /\ cache[<<day[p], session[p]>>] = "miss"
    \/ pc[p] \in {"load_students", "button", "set_lock", "set_lock_write"}

StorageUnavailable(p) ==
    /\ AtSheetCall(p)
    /\ pc' = [pc EXCEPT ![p] = "menu"]
    /\ ResetLocals(p)
    /\ UNCHANGED <<students, attendance, locks, cache, user, report>>

\* ttl=30 of is_locked's cache: an entry expires.
CacheExpire ==
    /\ \E k \in Keys :
        /\ cache[k] # "miss"
        /\ cache' = [cache EXCEPT ![k] = "miss"]
    /\ UNCHANGED <<students, attendance, locks, user, pc, locals, report>>

\* ------------------------------------------------------------- analytics
MonthOf(d) == d \div 2 + 1

\* round(2) of 100 * n / d, in hundredths of a percent (half to even).
RoundedPercent(n, d) ==
    LET q == (10000 * n) \div d
        r == (10000 * n) % d
    IN  IF 2 * r < d THEN q
        ELSE IF 2 * r > d THEN q + 1
        ELSE IF q % 2 = 0 THEN q ELSE q + 1

\* Lines 294-298: the month and the session filter.
Filtered(df, month_filter, session_filter) ==
    SelectSeq(df, LAMBDA r :
        /\ (month_filter # 0 => MonthOf(r.date) = month_filter)
        /\ (session_filter # "All" => r.session = session_filter))

\* Lines 320-321.
Total(df, sid) == Cardinality({i \in DOMAIN df : df[i].student_id = sid})
Present(df, sid) ==
    Cardinality({i \in DOMAIN df : df[i].student_id = sid /\ df[i].status = "P"})

\* Lines 322 and 330: the Attendance % column, NaN filled with 0.
Percentage(df, sid) ==
    IF Present(df, sid) = 0 THEN 0
    ELSE RoundedPercent(Present(df, sid), Total(df, sid))

\* Lines 324-330: the index of report, the union of the two indexes.
ReportIndex(df, rows) ==
    {rows[i].student_id : i \in DOMAIN rows} \cup {df[i].student_id : i \in DOMAIN df}

\* Line 334.
IsRedFlag(df, sid) == Percentage(df, sid) < 100 * RedFlagThreshold

\* Line 340: the orders sort_values("Attendance %") can leave the ids S in.
SortValuesDescending(df, S) ==
    {f \in [1..Cardinality(S) -> S] :
        /\ \A i, j \in DOMAIN f : i # j => f[i] # f[j]
        /\ \A i, j \in DOMAIN f : i < j => Percentage(df, f[i]) >= Percentage(df, f[j])}

SortValues(df, S) ==
    {f \in [1..Cardinality(S) -> S] :
        /\ \A i, j \in DOMAIN f : i # j => f[i] # f[j]
        /\ \A i, j \in DOMAIN f : i < j => Percentage(df, f[i]) <= Percentage(df, f[j])}

MonthFilters == {0} \cup {MonthOf(attendance[i].date) : i \in DOMAIN attendance}

analytics(p) ==
    /\ pc[p] = "menu"
    /\ IsAdmin(p)
    /\ \E month_filter \in MonthFilters, session_filter \in {"All"} \cup SessionSet :
        LET df == Filtered(attendance, month_filter, session_filter) IN
        IF attendance = <<>> THEN
            shown' = Page("no_data", <<>>, <<>>) /\ red_flags' = <<>>
        ELSE IF df = <<>> THEN
            shown' = Page("no_data_for_filters", <<>>, <<>>) /\ red_flags' = <<>>
        ELSE IF students = <<>> THEN
            \* set_index("student_id") of a frame with no columns raises
            shown' = Page("error", <<>>, <<>>) /\ red_flags' = <<>>
        ELSE
            /\ shown' = Page("report", df, students)
            /\ \E order \in SortValues(df, {sid \in ReportIndex(df, students) : IsRedFlag(df, sid)}) :
                red_flags' = [i \in DOMAIN order |->
                                [student_id |-> order[i], percent |-> Percentage(df, order[i])]]
    /\ UNCHANGED <<students, attendance, locks, cache, user, pc, locals>>

\* ------------------------------------------------------------- specifications
\* The attendance ledger: script runs of take_attendance in every browser
\* session, interleaved.
Next ==
    \/ \E p \in Procs : TakeAttendanceStart(p)
    \/ \E p \in Procs : IsLockedCached(p)
    \/ \E p \in Procs : IsLockedRead(p)
    \/ \E p \in Procs : IsLockedReturn(p)
    \/ \E p \in Procs : LoadStudents(p)
    \/ \E p \in Procs : NoSubmit(p)
    \/ \E p \in Procs : SubmitAppend(p)
    \/ \E p \in Procs : SetLockRead(p)
    \/ \E p \in Procs : SetLockWrite(p)
    \/ \E p \in Procs : CacheClear(p)
    \/ \E p \in Procs : StorageUnavailable(p)
    \/ CacheExpire

Spec == Init /\ [][Next]_vars

\* The analytics page over an Attendance sheet of any content, the rows
\* being the ones take_attendance writes for the rosters the Students sheet
\* went through, and over any Students sheet; one browser session is an
\* admin's and one an operator's.
AttendanceRows ==
    [date : Days, session : SessionSet, student_id : StudentIds, status : StatusSeen]

InitAnalytics ==
    /\ students \in Rosters
    /\ attendance \in UNION {[1..n -> AttendanceRows] : n \in 0..MaxRows}
    /\ locks = <<>>
    /\ cache = [k \in Keys |-> "miss"]
    /\ user = [p \in Procs |-> IF p = 1 THEN "warden1" ELSE "morning"]
    /\ pc = [p \in Procs |-> "menu"]
    /\ day = [p \in Procs |-> 0]
    /\ session = [p \in Procs |-> "-"]
    /\ locked_seen = [p \in Procs |-> FALSE]
    /\ data = [p \in Procs |-> <<>>]
    /\ idx = [p \in Procs |-> 0]
    /\ shown = Page("none", <<>>, <<>>)
    /\ red_flags = <<>>

NextAnalytics == \E p \in Procs : analytics(p)

SpecAnalytics == InitAnalytics /\ [][NextAnalytics]_vars

\* ------------------------------------------------------------- properties
SameKey(r, d, s) == r.date = d /\ r.session = s

\* At least one Attendance row exists for the (date, session).
HasSubmission(d, s) == \E i \in DOMAIN attendance : SameKey(attendance[i], d, s)

\* The script run of p has appended its rows and has not finished.
Appended(p) == pc[p] \in {"set_lock", "set_lock_write", "cache_clear"}

\* The step is the append_rows call of p.
AppendStep(p) == pc[p] = "button" /\ pc'[p] = "set_lock"

\* The step is the write of set_lock called by p.
LockWriteStep(p) == pc[p] = "set_lock_write" /\ pc'[p] = "cache_clear"

\* C1 (I1): the Attendance sheet never holds two rows with the same
\* (date, session, student_id), whatever submits ran.
C1_NoDuplicateRecords ==
    \A i, j \in DOMAIN attendance :
        i # j => ~( /\ attendance[i].date = attendance[j].date
                    /\ attendance[i].session = attendance[j].session
                    /\ attendance[i].student_id = attendance[j].student_id )

\* C2: two submits of operators for the same (date, session) that run at the
\* same time never both append their rows: at most one of them commits.
C2_OneConcurrentCommit ==
    \A p, q \in Procs :
        ( /\ p # q
          /\ IsOperator(p) /\ IsOperator(q)
          /\ Appended(p) /\ Appended(q) )
        => ~(day[p] = day[q] /\ session[p] = session[q])

\* C3 (I2): the Locks sheet holds at most one row for a (date, session), and
\* the row says locked: no call of set_lock appends a second row for a key.
C3_OneLockEntryPerKey ==
    /\ \A i, j \in DOMAIN locks :
           i # j => ~SameKey(locks[i], locks[j].date, locks[j].session)
    /\ \A i \in DOMAIN locks : locks[i].locked = "TRUE"

\* C4: a submit of a non-admin whose is_locked call is made while the Locks
\* sheet holds locked = true for its (date, session) is rejected there and
\* writes nothing: the call answers locked, line 230 ends the run, and the
\* step leaves the Attendance and the Locks sheet as they were.
C4_LockedSubmitRejected ==
    [][\A p \in Procs :
          ( /\ ~IsAdmin(p)
            /\ pc[p] = "is_locked"
            /\ pc'[p] # "is_locked"
            /\ is_locked(locks, day[p], session[p]) )
          => /\ pc'[p] \in {"menu", "is_locked_return"}
             /\ pc'[p] = "is_locked_return" => locked_seen'[p]
             /\ attendance' = attendance
             /\ locks' = locks]_vars

\* C5: a submit of a non-admin does not get past the checks that precede the
\* form while an Attendance row exists for its (date, session), also when the
\* Locks sheet has no locked entry for the key.
C5_DuplicateSubmitRejected ==
    [][\A p \in Procs :
          ( /\ ~IsAdmin(p)
            /\ pc[p] \in {"is_locked", "is_locked_return"}
            /\ HasSubmission(day[p], session[p]) )
          => pc'[p] # "load_students"]_vars

\* C6: records are written before the lock.  Every (date, session) that has
\* a row in the Locks sheet has rows in the Attendance sheet, and a run that
\* has reached set_lock has every row of its data in the Attendance sheet.
C6_RecordsBeforeLock ==
    /\ \A i \in DOMAIN locks : HasSubmission(locks[i].date, locks[i].session)
    /\ \A p \in Procs :
          Appended(p) =>
              /\ data[p] # <<>>
              /\ \A k \in DOMAIN data[p] :
                    \E i \in DOMAIN attendance :
                        /\ SameKey(attendance[i], day[p], session[p])
                        /\ attendance[i].student_id = data[p][k]

C6_Witness ==
    \E p \in Procs :
        /\ pc[p] = "cache_clear"
        /\ \E i \in DOMAIN locks :
              SameKey(locks[i], day[p], session[p]) /\ locks[i].locked = "TRUE"

\* C7: every row a run of an operator appends to the Attendance sheet, and
\* every row of the Locks sheet it appends or updates, has the session the
\* operator is bound to in USERS.
C7_OperatorBoundSession ==
    [][\A p \in Procs :
          IsOperator(p) =>
            /\ AppendStep(p) =>
                 \A i \in DOMAIN attendance' :
                     i > Len(attendance) =>
                         attendance'[i].session = USERS[user[p]].session
            /\ LockWriteStep(p) =>
                 \A i \in DOMAIN locks' :
                     (i \notin DOMAIN locks \/ locks'[i] # locks[i] \/ i = idx[p] - 1)
                         => locks'[i].session = USERS[user[p]].session]_vars

C7_Witness ==
    \E p \in Procs :
        /\ IsOperator(p)
        /\ pc[p] = "cache_clear"
        /\ HasSubmission(day[p], USERS[user[p]].session)
        /\ FirstMatch(locks, day[p], USERS[user[p]].session) # 0

\* C8: no step removes or changes a row of the Attendance sheet, and the
\* append of an admin for a key that has rows already leaves the old rows in
\* place and adds one row for each entry of its data after them.
C8_RecordsAppendOnly ==
    [][/\ Len(attendance') >= Len(attendance)
       /\ SubSeq(attendance', 1, Len(attendance)) = attendance
       /\ \A p \in Procs :
             (IsAdmin(p) /\ AppendStep(p) /\ HasSubmission(day[p], session[p]))
             => /\ Len(attendance') = Len(attendance) + Len(data[p])
                /\ \A i \in DOMAIN attendance' :
                       i > Len(attendance) => SameKey(attendance'[i], day[p], session[p])]_vars

C8_Witness ==
    \E p \in Procs :
        /\ IsAdmin(p)
        /\ pc[p] = "set_lock"
        /\ \E i, j \in DOMAIN attendance :
              /\ i < j
              /\ j > Len(attendance) - Len(data[p])
              /\ SameKey(attendance[i], day[p], session[p])
              /\ SameKey(attendance[j], day[p], session[p])
              /\ attendance[i].student_id = attendance[j].student_id

\* C10: the lock is monotone.  Every row of the Locks sheet says locked, and
\* a step leaves every row in its place, for the same key, still locked.
C10_LockMonotone ==
    [][/\ \A i \in DOMAIN locks :
             /\ i \in DOMAIN locks'
             /\ SameKey(locks'[i], locks[i].date, locks[i].session)
             /\ locks[i].locked = "TRUE" => locks'[i].locked = "TRUE"
       /\ \A i \in DOMAIN locks' : locks'[i].locked = "TRUE"]_vars

C10_Witness ==
    \E p \in Procs :
        /\ pc[p] = "cache_clear"
        /\ idx[p] # 0
        /\ locks[idx[p] - 1].locked = "TRUE"

\* ---- C9: the red flag table of analytics
IdsOf(rows) == {rows[i].student_id : i \in DOMAIN rows}
ActiveIdsOf(rows) == {rows[i].student_id : i \in {k \in DOMAIN rows : rows[k].active}}
RecordsOf(df, sid) == {i \in DOMAIN df : df[i].student_id = sid}
PresentOf(df, sid) == {i \in RecordsOf(df, sid) : df[i].status = "P"}
FlaggedIds == {red_flags[i].student_id : i \in DOMAIN red_flags}

Ascending ==
    \A i, j \in DOMAIN red_flags : i < j => red_flags[i].percent <= red_flags[j].percent

\* h is 100 * present / total rounded to two decimals, in hundredths of a
\* percent, and 0 for a person with no records.
IsPercentOf(h, df, sid) ==
    LET n == Cardinality(PresentOf(df, sid))
        t == Cardinality(RecordsOf(df, sid))
    IN  IF t = 0 THEN h = 0
        ELSE /\ 2 * (h * t - 10000 * n) <= t
             /\ 2 * (10000 * n - h * t) <= t

\* 100 * n / t, rounded to two decimals (half to even), is below the
\* threshold: the quotient lies below threshold - 0.005.  No records count
\* as 0 percent.
RoundsBelowThreshold(n, t) ==
    t = 0 \/ 2 * 10000 * n < (2 * 100 * RedFlagThreshold - 1) * t

\* C9 as stated: the table lists exactly the active people whose percentage
\* is strictly below the threshold, worst first, and no inactive person.
C9_FlaggedActivePeople ==
    shown.view = "report" =>
        /\ FlaggedIds =
             {sid \in ActiveIdsOf(shown.students) :
                 100 * Cardinality(PresentOf(shown.df, sid))
                     < RedFlagThreshold * Cardinality(RecordsOf(shown.df, sid))
                 \/ RecordsOf(shown.df, sid) = {}}
        /\ Ascending

\* C9 as amended: when the filtered records and the Students sheet are both
\* non-empty, the table lists, once each and worst first, exactly the ids of
\* the Students sheet (active or not) and of the records whose percentage,
\* rounded to two decimals, is below the threshold; otherwise no table.
C9_FlaggedEveryPerson ==
    IF shown.view = "report"
    THEN /\ shown.df # <<>> /\ shown.students # <<>>
         /\ \A i \in DOMAIN red_flags :
               IsPercentOf(red_flags[i].percent, shown.df, red_flags[i].student_id)
         /\ \A i, j \in DOMAIN red_flags :
               i # j => red_flags[i].student_id # red_flags[j].student_id
         /\ FlaggedIds =
              {sid \in IdsOf(shown.students) \cup IdsOf(shown.df) :
                  RoundsBelowThreshold(Cardinality(PresentOf(shown.df, sid)),
                                       Cardinality(RecordsOf(shown.df, sid)))}
         /\ Ascending
    ELSE red_flags = <<>>

C9_Witness ==
    /\ shown.view = "report"
    /\ Len(red_flags) >= 2
    /\ red_flags[1].percent < red_flags[2].percent
    /\ FlaggedIds \ ActiveIdsOf(shown.students) # {}
    /\ \E i \in DOMAIN red_flags : RecordsOf(shown.df, red_flags[i].student_id) = {}

====
